---- MODULE Spec2Model ----
(***************************************************************************)
(* Job lifecycle manager of greensim's Go backend (src/backend/main.go,    *)
(* the third and final draft in that file, lines 100-421): POST /simulate, *)
(* the three GET handlers, the Redis keys and lists they use, the external *)
(* worker that consumes the queue, and TTL expiry of the stored records.   *)
(*                                                                         *)
(* Every Redis command is one atomic step; a handler is a sequence of such *)
(* steps (one goroutine per request), so handlers, the worker and expiry   *)
(* interleave between commands.  Every command may fail (store unreachable *)
(* or the 5 s operation deadline exceeded); a command that fails has no    *)
(* effect on the store.  A handler's last command and its c.JSON answer    *)
(* are one step, as nothing shared is touched in between.                  *)
(*                                                                         *)
(* Representation.  float64 values are named by their canonical decimal    *)
(* literal (a string); a nil *float64 is "nil".  A JSON value is a pair    *)
(* <<"num", literal>> or <<"str", text>>; a JSON object is a function from *)
(* its keys to values, so an omitted key is a key outside the DOMAIN.  An  *)
(* optional value (a Redis reply that may be redis.Nil) is a sequence of   *)
(* length 0 or 1.  Job ids are the integers 1, 2, ... in the order         *)
(* uuid.NewString() hands them out; id 0 is an id that is never generated. *)
(*                                                                         *)
(* Specifications.  Spec is the whole server with the worker and expiry,   *)
(* starting from an empty store (POST /simulate, GET /results/:job_id,     *)
(* GET /jobs/:job_id).  SpecRecent is POST /simulate and GET /results      *)
(* against a recency index that earlier submissions have filled to its     *)
(* cap.  SpecDefaults is applyDefaults called on its own.  SpecNoExpiry is  *)
(* Spec while every record is younger than its TTL.  SpecPoll is one       *)
(* client of the frontend (src/frontend/src/lib/api.ts) that submits a job *)
(* and polls for its result, with the server and the worker.  SpecStored   *)
(* is the two queries by job id against values that the writers of the     *)
(* shared store have put under a job's keys.                               *)
(***************************************************************************)
EXTENDS Integers, Sequences, FiniteSets, TLC

(* ------------------------------ bounds --------------------------------- *)
\* number of HTTP requests served in a run
MaxReqs == 2
\* the last instant of the wall clock (the first is 0)
MaxTime == 1
\* applyDefaults on its own: at most MaxSet fields of the record are set
\* by the caller, and the function is called at most MaxCalls times
MaxSet == 2
MaxCalls == 2

(* ------------------------- program constants --------------------------- *)
StatusQueued  == "queued"
StatusRunning == "running"
StatusDone    == "done"
StatusError   == "error"

RedisResultsPrefix  == "job_result:"
RedisJobMetaPrefix  == "job_meta:"
RecentJobsMaxRetain == 100
\* the last position GET /results reads (line 328)
RecentListStop == 49

\* net/http status codes the handlers answer with
StatusAccepted            == 202
StatusOK                  == 200
StatusBadRequest          == 400
StatusNotFound            == 404
StatusInternalServerError == 500

(* ------------------------------ values --------------------------------- *)
None     == << >>
Some(x)  == << x >>
Num(v)   == << "num", v >>
Str(v)   == << "str", v >>

Reqs   == 1..MaxReqs
Ids    == 0..MaxReqs
Times  == 0..MaxTime

(* --------------------------- SimulationParams -------------------------- *)
\* the fields of the struct, by their Go names
FloatFields ==
    { "ThermalMass", "ThermalMassKg", "CpMass", "VentilationRate", "U_day",
      "U_night", "A_glass", "tau_glass", "ACH", "Volume", "C", "T_init",
      "Setpoint", "Lat", "Lon", "HeaterMaxW", "EvapRate", "FractionSolarAir" }
StringFields == { "StartDate", "EndDate" }
Fields == FloatFields \cup StringFields

\* the json:"..." tag of each field
JsonTag(f) ==
    CASE f = "ThermalMass"      -> "thermal_mass"
      [] f = "ThermalMassKg"    -> "thermal_mass_kg"
      [] f = "CpMass"           -> "cp_mass"
      [] f = "VentilationRate"  -> "ventilation_rate"
      [] f = "U_day"            -> "U_day"
      [] f = "U_night"          -> "U_night"
      [] f = "A_glass"          -> "A_glass"
      [] f = "tau_glass"        -> "tau_glass"
      [] f = "ACH"              -> "ACH"
      [] f = "Volume"           -> "V"
      [] f = "C"                -> "C"
      [] f = "T_init"           -> "T_init"
      [] f = "Setpoint"         -> "setpoint"
      [] f = "Lat"              -> "lat"
      [] f = "Lon"              -> "lon"
      [] f = "StartDate"        -> "start_date"
      [] f = "EndDate"          -> "end_date"
      [] f = "HeaterMaxW"       -> "heater_max_w"
      [] f = "EvapRate"         -> "evap_rate"
      [] f = "FractionSolarAir" -> "fraction_solar_to_air"

\* encoding/json reads and writes exported fields only; tau_glass starts with
\* a lower-case letter, so its tag is ignored
Exported(f) == f # "tau_glass"

\* the zero value of a field: a nil pointer, or the empty string
ZeroValue(f) == IF f \in FloatFields THEN "nil" ELSE ""
ZeroParams   == [f \in Fields |-> ZeroValue(f)]

\* json.Marshal of a SimulationParams: every tag carries omitempty
MarshalParams(p) ==
    LET kept == { f \in Fields : Exported(f) /\ p[f] # ZeroValue(f) }
        fieldOf(k) == CHOOSE f \in kept : JsonTag(f) = k
    IN  [k \in { JsonTag(f) : f \in kept } |->
            IF fieldOf(k) \in FloatFields THEN Num(p[fieldOf(k)])
                                          ELSE Str(p[fieldOf(k)])]

\* a request body: text that is or is not JSON syntax, and the object it
\* denotes when it is
BodyDecodes(body) ==
    /\ body.syntax
    /\ \A f \in Fields :
          (Exported(f) /\ JsonTag(f) \in DOMAIN body.obj) =>
              body.obj[JsonTag(f)][1] = (IF f \in FloatFields THEN "num" ELSE "str")

\* c.BindJSON(&params): the struct it leaves behind when decoding succeeds
BindJSON(body) ==
    [f \in Fields |->
        IF Exported(f) /\ JsonTag(f) \in DOMAIN body.obj
        THEN body.obj[JsonTag(f)][2]
        ELSE ZeroValue(f)]

\* mutant of applyDefaults: A_glass is assigned without the nil test
applyDefaultsOverwrites(p) ==
    LET dflt(q, f, v) == IF q[f] = "nil" THEN [q EXCEPT ![f] = v] ELSE q
        p1  == [p EXCEPT !["A_glass"] = "50"]
        p2  == dflt(p1, "tau_glass", "0.85")
        p3  == dflt(p2, "U_day", "3")
        p4  == dflt(p3, "U_night", "0.6")
        p5  == dflt(p4, "ACH", "0.5")
        p6  == dflt(p5, "Volume", "100")
        p7  == IF p6["C"] = "nil" /\ p6["ThermalMassKg"] = "nil"
               THEN [p6 EXCEPT !["C"] = "20000000"] ELSE p6
        p8  == dflt(p7, "CpMass", "4186")
        p9  == dflt(p8, "T_init", "15")
        p10 == dflt(p9, "Setpoint", "12")
        p11 == dflt(p10, "HeaterMaxW", "5000")
        p12 == dflt(p11, "FractionSolarAir", "0.5")
    IN  p12

\* mutant of applyDefaults: the Setpoint block is missing
applyDefaultsNoSetpoint(p) ==
    LET dflt(q, f, v) == IF q[f] = "nil" THEN [q EXCEPT ![f] = v] ELSE q
        p1  == dflt(p,  "A_glass", "50")
        p2  == dflt(p1, "tau_glass", "0.85")
        p3  == dflt(p2, "U_day", "3")
        p4  == dflt(p3, "U_night", "0.6")
        p5  == dflt(p4, "ACH", "0.5")
        p6  == dflt(p5, "Volume", "100")
        p7  == IF p6["C"] = "nil" /\ p6["ThermalMassKg"] = "nil"
               THEN [p6 EXCEPT !["C"] = "20000000"] ELSE p6
        p8  == dflt(p7, "CpMass", "4186")
        p9  == dflt(p8, "T_init", "15")
        p10 == p9
        p11 == dflt(p10, "HeaterMaxW", "5000")
        p12 == dflt(p11, "FractionSolarAir", "0.5")
    IN  p12

\* applyDefaults(&params)
applyDefaults(p) ==
    LET dflt(q, f, v) == IF q[f] = "nil" THEN [q EXCEPT ![f] = v] ELSE q
        p1  == dflt(p,  "A_glass", "50")
        p2  == dflt(p1, "tau_glass", "0.85")
        p3  == dflt(p2, "U_day", "3")
        p4  == dflt(p3, "U_night", "0.6")
        p5  == dflt(p4, "ACH", "0.5")
        p6  == dflt(p5, "Volume", "100")
        p7  == IF p6["C"] = "nil" /\ p6["ThermalMassKg"] = "nil"
               THEN [p6 EXCEPT !["C"] = "20000000"] ELSE p6
        p8  == dflt(p7, "CpMass", "4186")
        p9  == dflt(p8, "T_init", "15")
        p10 == dflt(p9, "Setpoint", "12")
        p11 == dflt(p10, "HeaterMaxW", "5000")
        p12 == dflt(p11, "FractionSolarAir", "0.5")
    IN  p12

\* the request bodies the clients send
BodyEmpty == [syntax |-> TRUE, obj |-> << >>]
BodyChicago ==
    [syntax |-> TRUE,
     obj |-> [k \in {"lat", "lon", "start_date", "end_date"} |->
                CASE k = "lat"        -> Num("41.8781")
                  [] k = "lon"        -> Num("-87.6298")
                  [] k = "start_date" -> Str("2025-11-01")
                  [] k = "end_date"   -> Str("2025-11-02")]]
BodyMalformed == [syntax |-> FALSE, obj |-> << >>]
BodyBadType ==
    [syntax |-> TRUE, obj |-> [k \in {"lat"} |-> Str("north")]]
Bodies == { BodyChicago, BodyMalformed, BodyBadType }
\* a caller who gives the glazing: area and transmittance
BodyGlazing ==
    [syntax |-> TRUE,
     obj |-> [k \in {"A_glass", "tau_glass"} |->
                CASE k = "A_glass"   -> Num("75")
                  [] k = "tau_glass" -> Num("0.9")]]
RecentBodies == { BodyGlazing, BodyMalformed }

(* ------------------------------ the store ------------------------------ *)
\* mutant of Key: the two kinds of key are built with one and the same prefix
KeySharedPrefix(prefix, jobID) == "job:" \o ToString(jobID)

\* a string key, RedisResultsPrefix + jobID or RedisJobMetaPrefix + jobID
\* (lines 270, 273, 295, 299, 341): the prefix followed by the text of the id
Key(prefix, jobID) == prefix \o ToString(jobID)
Keys == { Key(p, i) : p \in {RedisResultsPrefix, RedisJobMetaPrefix}, i \in Ids }

\* A value stored under job_meta:<id> is named by the JSON object it
\* denotes.  A stored text that is no JSON document is named by a function
\* with the one member "<not json>", which no JSON object of the model has.
NotJSON(text) == [k \in {"<not json>"} |-> text]

\* json.Unmarshal returns no error on the stored text
JsonValid(doc) == "<not json>" \notin DOMAIN doc

\* the documents a worker stores as a result: JSON text, or a plain string
JsonTexts   == { "{\"data\":[]}" }
ResultBlobs == JsonTexts \cup { "plain text" }

VARIABLES
    queue,      \* the Redis list simulation_jobs: payloads, head first
    kv,         \* the Redis string keys job_meta:<id> and job_result:<id>
    recent,     \* the Redis list recent_simulation_ids, head first
    h,          \* h[r]: the handler goroutine serving request r
    w,          \* the external worker
    popped,     \* history: the job ids the worker has taken off the queue, in order
    uuids,      \* how many ids uuid.NewString() has generated
    clock,      \* the wall clock
    given,      \* applyDefaults on its own: the record as the caller made it
    filled,     \* the same record after the calls made so far
    calls,      \* how many times applyDefaults has been called on it
    p           \* the browser client: submitSimulation, then getJobResults

call == << given, filled, calls >>
vars == << queue, kv, recent, h, w, popped, uuids, clock, call, p >>

\* no client of the frontend is running
PollerOff ==
    [pc |-> "off", jobID |-> 0, elapsed |-> 0, polls |-> 0, outcome |-> "none",
     last |-> None]

\* the reply of a Redis GET: err is "nil" (a value), "redis.Nil" (no such
\* key) or "error" (the command failed)
NoReply == [err |-> "none", val |-> None]
Get(key, fail) ==
    IF fail THEN [err |-> "error", val |-> None]
    ELSE IF kv[key] = None THEN [err |-> "redis.Nil", val |-> None]
    ELSE [err |-> "nil", val |-> kv[key]]

(* ------------------------------ records -------------------------------- *)
\* json.Marshal(JobPayload{...})
MarshalJobPayload(jobID, now, params) ==
    [job_id |-> jobID, created_at |-> now, params |-> MarshalParams(params)]

\* json.Marshal(JobMeta{...}): error and result_key carry omitempty
MarshalJobMeta(jobID, status, createdAt, updatedAt, params, error, resultKey) ==
    LET base == [job_id |-> jobID, status |-> status, created_at |-> createdAt,
                 updated_at |-> updatedAt, params |-> MarshalParams(params),
                 result_key |-> resultKey]
    IN  IF error = "" THEN base
        ELSE [k \in DOMAIN base \cup {"error"} |->
                 IF k = "error" THEN error ELSE base[k]]

\* mutant of SubmissionMeta: the record takes its times from a later reading
\* of the clock than the payload
SubmissionMetaLaterClock(jobID, now, params) ==
    MarshalJobMeta(jobID, StatusQueued, now + 1, now + 1, params, "",
                   Key(RedisResultsPrefix, jobID))

\* the JobMeta written by the submission handler
SubmissionMeta(jobID, now, params) ==
    MarshalJobMeta(jobID, StatusQueued, now, now, params, "",
                   Key(RedisResultsPrefix, jobID))

\* meta.Status after json.Unmarshal([]byte(metaBytes), &meta)
MetaStatus(doc) == IF "status" \in DOMAIN doc THEN doc.status ELSE ""

\* json.Unmarshal([]byte(res), &parsed) followed by the choice of the result
\* field: the parsed document, or the raw string when res is not JSON
ResultField(res) == IF res \in JsonTexts THEN << "json", res >> ELSE << "str", res >>

(* ------------------------------ handlers ------------------------------- *)
IdleHandler ==
    [kind |-> "idle", pc |-> "idle", body |-> None, errBind |-> "none",
     params |-> ZeroParams,
     jobID |-> 0, now |-> 0, errPush |-> "none", errMeta |-> "none",
     errLPush |-> "none", errTrim |-> "none", res |-> NoReply, meta |-> NoReply,
     resp |-> None]

\* requests are served in the order of their slots
Arrives(r) == h[r].kind = "idle" /\ \A q \in Reqs : q < r => h[q].kind # "idle"

Respond(code, body) == Some([code |-> code, body |-> body])

\* the handler has answered and returns
Returned(hr, resp) ==
    [hr EXCEPT !.pc = "done", !.resp = resp, !.params = ZeroParams, !.now = 0]

\* mutant of NewString: the generator hands out the id it handed out last
NewStringStale == IF uuids = 0 THEN 1 ELSE uuids

\* uuid.NewString(): an id no earlier call returned
NewString == uuids + 1

ErrOf(fail) == IF fail THEN "fail" ELSE "ok"

TypeOK ==
    /\ uuids \in 0..MaxReqs
    /\ clock \in Times
    /\ Len(recent) <= RecentJobsMaxRetain + MaxReqs
    /\ \A r \in Reqs : h[r].kind \in {"idle", "simulate", "results", "jobs", "list"}

Init ==
    /\ queue = << >>
    /\ kv = [k \in Keys |-> None]
    /\ recent = << >>
    /\ h = [r \in Reqs |-> IdleHandler]
    /\ w = [pc |-> "idle", job |-> None]
    /\ popped = << >>
    /\ uuids = 0
    /\ clock = 0
    /\ given = ZeroParams /\ filled = ZeroParams /\ calls = 0
    /\ p = PollerOff

\* time.Now(): the clock has stood still since it was last read, or has
\* moved on
Now == { t \in Times : t = clock \/ t = clock + 1 }

\* mutant of SimulateBind: the return after the 400 answer is missing
SimulateBindNoReturn(r, body, now) ==
    /\ Arrives(r)
    /\ h' = [h EXCEPT ![r] = [@ EXCEPT !.kind = "simulate", !.pc = "rpush",
                !.errBind = IF BodyDecodes(body) THEN "ok" ELSE "fail",
                !.params = applyDefaults(BindJSON(body)),
                !.jobID = uuids + 1,
                !.now = now,
                !.resp = IF BodyDecodes(body) THEN None
                         ELSE Respond(StatusBadRequest, [error |-> "invalid JSON"])]]
    /\ uuids' = uuids + 1
    /\ clock' = now
    /\ UNCHANGED << queue, kv, recent, w, popped, call, p >>

\* POST /simulate, lines 231-253: decode, fill defaults, make the job
SimulateBind(r, body, now) ==
    /\ Arrives(r)
    /\ IF ~BodyDecodes(body)
       THEN /\ h' = [h EXCEPT ![r] =
                      Returned([@ EXCEPT !.kind = "simulate", !.errBind = "fail"],
                               Respond(StatusBadRequest, [error |-> "invalid JSON"]))]
            /\ UNCHANGED << uuids, clock >>
       ELSE /\ h' = [h EXCEPT ![r] = [@ EXCEPT !.kind = "simulate", !.pc = "rpush",
                        !.body = Some(body), !.errBind = "ok",
                        !.params = applyDefaults(BindJSON(body)),
                        !.jobID = NewString,
                        !.now = now]]
            /\ uuids' = uuids + 1
            /\ clock' = now
    /\ UNCHANGED << queue, kv, recent, w, popped, call, p >>

\* mutant of SimulateRPush: the return after the 500 answer is missing
SimulateRPushNoAbort(r, fail) ==
    /\ h[r].kind = "simulate" /\ h[r].pc = "rpush"
    /\ queue' = IF fail THEN queue
                ELSE Append(queue, MarshalJobPayload(h[r].jobID, h[r].now, h[r].params))
    /\ h' = [h EXCEPT ![r] = [@ EXCEPT !.pc = "setmeta", !.errPush = ErrOf(fail),
                !.resp = IF fail THEN Respond(StatusInternalServerError,
                                              [error |-> "failed to enqueue job"])
                         ELSE None]]
    /\ UNCHANGED << kv, recent, w, uuids, clock, popped, call, p >>

\* mutant of SimulateRPush: the id goes onto the recent list together with
\* the payload onto the queue, before the metadata is written
SimulateRPushAnnounces(r, fail) ==
    /\ h[r].kind = "simulate" /\ h[r].pc = "rpush"
    /\ IF fail
       THEN /\ h' = [h EXCEPT ![r] =
                      Returned([@ EXCEPT !.errPush = "fail"],
                               Respond(StatusInternalServerError,
                                       [error |-> "failed to enqueue job"]))]
            /\ UNCHANGED << queue, recent >>
       ELSE /\ queue' = Append(queue,
                               MarshalJobPayload(h[r].jobID, h[r].now, h[r].params))
            /\ recent' = << h[r].jobID >> \o recent
            /\ h' = [h EXCEPT ![r] = [@ EXCEPT !.pc = "setmeta", !.errPush = "ok"]]
    /\ UNCHANGED << kv, w, uuids, clock, popped, call, p >>

\* mutant of SimulateRPush: the payload is pushed onto the head of the queue
\* (LPush in place of RPush)
SimulateRPushHead(r, fail) ==
    /\ h[r].kind = "simulate" /\ h[r].pc = "rpush"
    /\ IF fail
       THEN /\ h' = [h EXCEPT ![r] =
                      Returned([@ EXCEPT !.errPush = "fail"],
                               Respond(StatusInternalServerError,
                                       [error |-> "failed to enqueue job"]))]
            /\ UNCHANGED queue
       ELSE /\ queue' = << MarshalJobPayload(h[r].jobID, h[r].now, h[r].params) >>
                        \o queue
            /\ h' = [h EXCEPT ![r] = [@ EXCEPT !.pc = "setmeta", !.errPush = "ok"]]
    /\ UNCHANGED << kv, recent, w, uuids, clock, popped, call, p >>

\* lines 255-261: RPush onto the queue; a failure aborts with 500
SimulateRPush(r, fail) ==
    /\ h[r].kind = "simulate" /\ h[r].pc = "rpush"
    /\ IF fail
       THEN /\ h' = [h EXCEPT ![r] =
                      Returned([@ EXCEPT !.errPush = "fail"],
                               Respond(StatusInternalServerError,
                                       [error |-> "failed to enqueue job"]))]
            /\ UNCHANGED queue
       ELSE /\ queue' = Append(queue,
                               MarshalJobPayload(h[r].jobID, h[r].now, h[r].params))
            /\ h' = [h EXCEPT ![r] = [@ EXCEPT !.pc = "setmeta", !.errPush = "ok"]]
    /\ UNCHANGED << kv, recent, w, uuids, clock, popped, call, p >>

\* mutant of SimulateSetMeta: a failed metadata write fails the request
SimulateSetMetaFatal(r, fail) ==
    /\ h[r].kind = "simulate" /\ h[r].pc = "setmeta"
    /\ kv' = IF fail THEN kv
             ELSE [kv EXCEPT ![Key(RedisJobMetaPrefix, h[r].jobID)] =
                      Some(SubmissionMeta(h[r].jobID, h[r].now, h[r].params))]
    /\ h' = [h EXCEPT ![r] =
                IF fail
                THEN Returned([@ EXCEPT !.errMeta = "fail"],
                              Respond(StatusInternalServerError,
                                      [error |-> "failed to set job meta"]))
                ELSE [@ EXCEPT !.pc = "lpush", !.errMeta = "ok"]]
    /\ UNCHANGED << queue, recent, w, uuids, clock, popped, call, p >>

\* lines 263-276: Set job_meta:<id>; a failure is logged and ignored
SimulateSetMeta(r, fail) ==
    /\ h[r].kind = "simulate" /\ h[r].pc = "setmeta"
    /\ kv' = IF fail THEN kv
             ELSE [kv EXCEPT ![Key(RedisJobMetaPrefix, h[r].jobID)] =
                      Some(SubmissionMeta(h[r].jobID, h[r].now, h[r].params))]
    /\ h' = [h EXCEPT ![r] = [@ EXCEPT !.pc = "lpush", !.errMeta = ErrOf(fail)]]
    /\ UNCHANGED << queue, recent, w, uuids, clock, popped, call, p >>

Accepted(jobID) == Respond(StatusAccepted, [job_id |-> jobID, status |-> StatusQueued])

\* mutant of SimulateLPush: a failed head insert fails the request and
\* takes the metadata record back
SimulateLPushFatal(r, fail) ==
    /\ h[r].kind = "simulate" /\ h[r].pc = "lpush"
    /\ IF fail
       THEN /\ h' = [h EXCEPT ![r] =
                      Returned([@ EXCEPT !.errLPush = "fail"],
                               Respond(StatusInternalServerError,
                                       [error |-> "failed to update recent list"]))]
            /\ kv' = [kv EXCEPT ![Key(RedisJobMetaPrefix, h[r].jobID)] = None]
            /\ UNCHANGED recent
       ELSE /\ recent' = << h[r].jobID >> \o recent
            /\ h' = [h EXCEPT ![r] = [@ EXCEPT !.pc = "ltrim", !.errLPush = "ok"]]
            /\ UNCHANGED kv
    /\ UNCHANGED << queue, w, uuids, clock, popped, call, p >>

\* mutant of SimulateLPush: the id is pushed at the tail of the recent list
SimulateLPushTail(r, fail) ==
    /\ h[r].kind = "simulate" /\ h[r].pc = "lpush"
    /\ IF fail
       THEN /\ h' = [h EXCEPT ![r] =
                      Returned([@ EXCEPT !.errLPush = "fail"], Accepted(h[r].jobID))]
            /\ UNCHANGED recent
       ELSE /\ recent' = Append(recent, h[r].jobID)
            /\ h' = [h EXCEPT ![r] = [@ EXCEPT !.pc = "ltrim", !.errLPush = "ok"]]
    /\ UNCHANGED << queue, kv, w, uuids, clock, popped, call, p >>

\* lines 278-279 and 283-286: LPush onto the recent list; on failure the
\* trim is skipped and the handler answers
SimulateLPush(r, fail) ==
    /\ h[r].kind = "simulate" /\ h[r].pc = "lpush"
    /\ IF fail
       THEN /\ h' = [h EXCEPT ![r] =
                      Returned([@ EXCEPT !.errLPush = "fail"], Accepted(h[r].jobID))]
            /\ UNCHANGED recent
       ELSE /\ recent' = << h[r].jobID >> \o recent
            /\ h' = [h EXCEPT ![r] = [@ EXCEPT !.pc = "ltrim", !.errLPush = "ok"]]
    /\ UNCHANGED << queue, kv, w, uuids, clock, popped, call, p >>

\* mutant of LTrim: the element after the stop position is kept as well
LTrimKeepsOneMore(list, stop) ==
    IF Len(list) > stop + 2 THEN SubSeq(list, 1, stop + 2) ELSE list

\* mutant of LTrim: the newest ids are cut off the head and the oldest are
\* kept (LTRIM key -(stop+1) -1)
LTrimFromHead(list, stop) ==
    IF Len(list) > stop + 1 THEN SubSeq(list, Len(list) - stop, Len(list)) ELSE list

\* LTRIM key 0 stop, for stop >= 0
LTrim(list, stop) ==
    IF Len(list) > stop + 1 THEN SubSeq(list, 1, stop + 1) ELSE list

\* mutant of SimulateLTrim: before it answers, the handler writes the
\* metadata record once more
SimulateLTrimRewritesMeta(r, fail) ==
    /\ h[r].kind = "simulate" /\ h[r].pc = "ltrim"
    /\ recent' = IF fail THEN recent ELSE LTrim(recent, RecentJobsMaxRetain - 1)
    /\ kv' = [kv EXCEPT ![Key(RedisJobMetaPrefix, h[r].jobID)] =
                 Some(SubmissionMeta(h[r].jobID, h[r].now, h[r].params))]
    /\ h' = [h EXCEPT ![r] =
                Returned([@ EXCEPT !.errTrim = ErrOf(fail)], Accepted(h[r].jobID))]
    /\ UNCHANGED << queue, w, uuids, clock, popped, call, p >>

\* lines 280-286: LTrim (its result is dropped), then the 202 answer
SimulateLTrim(r, fail) ==
    /\ h[r].kind = "simulate" /\ h[r].pc = "ltrim"
    /\ recent' = IF fail THEN recent ELSE LTrim(recent, RecentJobsMaxRetain - 1)
    /\ h' = [h EXCEPT ![r] =
                Returned([@ EXCEPT !.errTrim = ErrOf(fail)], Accepted(h[r].jobID))]
    /\ UNCHANGED << queue, kv, w, uuids, clock, popped, call, p >>

\* mutant of ResultsGetResult: the test on the reply takes a stored result
\* for a missing one and falls back to the metadata
ResultsGetResultFallsBack(r, jobID, fail) ==
    /\ Arrives(r)
    /\ LET reply == Get(Key(RedisResultsPrefix, jobID), fail)
           hr == [h[r] EXCEPT !.kind = "results", !.jobID = jobID, !.res = reply]
       IN  h' = [h EXCEPT ![r] =
              IF reply.err = "error"
              THEN Returned(hr, Respond(StatusInternalServerError,
                                        [error |-> "redis error"]))
              ELSE [hr EXCEPT !.pc = "getmeta"]]
    /\ UNCHANGED << queue, kv, recent, w, uuids, clock, popped, call, p >>

\* mutant of ResultsGetResult: the result is read with GETDEL
ResultsGetResultConsumes(r, jobID, fail) ==
    /\ Arrives(r)
    /\ LET reply == Get(Key(RedisResultsPrefix, jobID), fail)
           hr == [h[r] EXCEPT !.kind = "results", !.jobID = jobID, !.res = reply]
       IN  /\ h' = [h EXCEPT ![r] =
                CASE reply.err = "redis.Nil" -> [hr EXCEPT !.pc = "getmeta"]
                  [] reply.err = "error" ->
                       Returned(hr, Respond(StatusInternalServerError,
                                            [error |-> "redis error"]))
                  [] OTHER ->
                       Returned(hr, Respond(StatusOK,
                                     [job_id |-> jobID, status |-> StatusDone,
                                      result |-> ResultField(reply.val[1])]))]
           /\ kv' = IF reply.err = "nil"
                    THEN [kv EXCEPT ![Key(RedisResultsPrefix, jobID)] = None]
                    ELSE kv
    /\ UNCHANGED << queue, recent, w, uuids, clock, popped, call, p >>

\* mutant of ResultsGetResult: a stored result that is not JSON is answered
\* with 500
ResultsGetResultRejectsRaw(r, jobID, fail) ==
    /\ Arrives(r)
    /\ LET reply == Get(Key(RedisResultsPrefix, jobID), fail)
           hr == [h[r] EXCEPT !.kind = "results", !.jobID = jobID, !.res = reply]
       IN  h' = [h EXCEPT ![r] =
              CASE reply.err = "redis.Nil" -> [hr EXCEPT !.pc = "getmeta"]
                [] reply.err = "error" ->
                     Returned(hr, Respond(StatusInternalServerError,
                                          [error |-> "redis error"]))
                [] OTHER ->
                     IF reply.val[1] \in JsonTexts
                     THEN Returned(hr, Respond(StatusOK,
                                   [job_id |-> jobID, status |-> StatusDone,
                                    result |-> ResultField(reply.val[1])]))
                     ELSE Returned(hr, Respond(StatusInternalServerError,
                                   [error |-> "failed to parse result"]))]
    /\ UNCHANGED << queue, kv, recent, w, uuids, clock, popped, call, p >>

\* GET /results/:job_id, lines 291-295 and 308-321: read the result
ResultsGetResult(r, jobID, fail) ==
    /\ Arrives(r)
    /\ LET reply == Get(Key(RedisResultsPrefix, jobID), fail)
           hr == [h[r] EXCEPT !.kind = "results", !.jobID = jobID, !.res = reply]
       IN  h' = [h EXCEPT ![r] =
              CASE reply.err = "redis.Nil" -> [hr EXCEPT !.pc = "getmeta"]
                [] reply.err = "error" ->
                     Returned(hr, Respond(StatusInternalServerError,
                                          [error |-> "redis error"]))
                [] OTHER ->
                     Returned(hr, Respond(StatusOK,
                                   [job_id |-> jobID, status |-> StatusDone,
                                    result |-> ResultField(reply.val[1])]))]
    /\ UNCHANGED << queue, kv, recent, w, uuids, clock, popped, call, p >>

\* mutant of ResultsGetMeta: the answer says queued whatever the record says
ResultsGetMetaQueued(r, fail) ==
    /\ h[r].kind = "results" /\ h[r].pc = "getmeta"
    /\ LET reply == Get(Key(RedisJobMetaPrefix, h[r].jobID), fail)
           hr == [h[r] EXCEPT !.meta = reply]
       IN  h' = [h EXCEPT ![r] =
              IF reply.err = "nil"
              THEN Returned(hr, Respond(StatusOK,
                        [job_id |-> h[r].jobID, status |-> StatusQueued]))
              ELSE Returned(hr, Respond(StatusNotFound,
                        [error |-> "no result or job not found"]))]
    /\ UNCHANGED << queue, kv, recent, w, uuids, clock, popped, call, p >>

\* mutant of ResultsGetMeta: the fallback answer carries a result field
ResultsGetMetaWithResult(r, fail) ==
    /\ h[r].kind = "results" /\ h[r].pc = "getmeta"
    /\ LET reply == Get(Key(RedisJobMetaPrefix, h[r].jobID), fail)
           hr == [h[r] EXCEPT !.meta = reply]
       IN  h' = [h EXCEPT ![r] =
              IF reply.err = "nil"
              THEN Returned(hr, Respond(StatusOK,
                        [job_id |-> h[r].jobID, status |-> MetaStatus(reply.val[1]),
                         result |-> << "str", "" >>]))
              ELSE Returned(hr, Respond(StatusNotFound,
                        [error |-> "no result or job not found"]))]
    /\ UNCHANGED << queue, kv, recent, w, uuids, clock, popped, call, p >>

\* mutant of ResultsGetMeta: a job without a metadata record is reported as
\* queued
ResultsGetMetaAbsentIsQueued(r, fail) ==
    /\ h[r].kind = "results" /\ h[r].pc = "getmeta"
    /\ LET reply == Get(Key(RedisJobMetaPrefix, h[r].jobID), fail)
           hr == [h[r] EXCEPT !.meta = reply]
       IN  h' = [h EXCEPT ![r] =
              Returned(hr, Respond(StatusOK,
                        [job_id |-> h[r].jobID,
                         status |-> IF reply.err = "nil"
                                    THEN MetaStatus(reply.val[1])
                                    ELSE StatusQueued]))]
    /\ UNCHANGED << queue, kv, recent, w, uuids, clock, popped, call, p >>

\* lines 296-307: the result is absent; answer from job_meta:<id>
ResultsGetMeta(r, fail) ==
    /\ h[r].kind = "results" /\ h[r].pc = "getmeta"
    /\ LET reply == Get(Key(RedisJobMetaPrefix, h[r].jobID), fail)
           hr == [h[r] EXCEPT !.meta = reply]
       IN  h' = [h EXCEPT ![r] =
              IF reply.err = "nil"
              THEN Returned(hr, Respond(StatusOK,
                        [job_id |-> h[r].jobID, status |-> MetaStatus(reply.val[1])]))
              ELSE Returned(hr, Respond(StatusNotFound,
                        [error |-> "no result or job not found"]))]
    /\ UNCHANGED << queue, kv, recent, w, uuids, clock, popped, call, p >>

\* mutant of JobMetaJSON: the error member is written out even when it is
\* empty (the omitempty option is missing)
JobMetaJSONKeepsEmpty(m) ==
    [k \in {"job_id", "status", "created_at", "updated_at", "params", "error",
            "result_key"} |->
        CASE k = "job_id"     -> m.JobID
          [] k = "status"     -> m.Status
          [] k = "created_at" -> m.CreatedAt
          [] k = "updated_at" -> m.UpdatedAt
          [] k = "params"     -> MarshalParams(m.Params)
          [] k = "error"      -> m.Error
          [] k = "result_key" -> m.ResultKey]

\* json.Unmarshal([]byte(val), &meta), line 349, on a text that is a JSON
\* object with well-typed members: the JobMeta struct it decodes to.  A
\* member the object lacks leaves the zero value in the struct.
UnmarshalJobMeta(doc) ==
    [JobID |-> doc.job_id, Status |-> MetaStatus(doc), CreatedAt |-> doc.created_at,
     UpdatedAt |-> doc.updated_at,
     Params |-> BindJSON([syntax |-> TRUE, obj |-> doc.params]),
     Error |-> IF "error" \in DOMAIN doc THEN doc.error ELSE "",
     ResultKey |-> doc.result_key]

\* c.JSON(http.StatusOK, meta), line 354: the struct written out again
JobMetaJSON(m) ==
    MarshalJobMeta(m.JobID, m.Status, m.CreatedAt, m.UpdatedAt, m.Params,
                   m.Error, m.ResultKey)

\* mutant of JobsGetMeta: a job without a metadata record whose result is
\* stored is reported as done
JobsGetMetaLooksAtResult(r, jobID, fail) ==
    /\ Arrives(r)
    /\ LET reply == Get(Key(RedisJobMetaPrefix, jobID), fail)
           hr == [h[r] EXCEPT !.kind = "jobs", !.jobID = jobID, !.meta = reply]
       IN  h' = [h EXCEPT ![r] =
              CASE reply.err = "redis.Nil" ->
                     IF kv[Key(RedisResultsPrefix, jobID)] # None
                     THEN Returned(hr, Respond(StatusOK,
                                   [job_id |-> jobID, status |-> StatusDone]))
                     ELSE Returned(hr, Respond(StatusNotFound,
                                               [error |-> "job not found"]))
                [] reply.err = "error" ->
                     Returned(hr, Respond(StatusInternalServerError,
                                          [error |-> "redis error"]))
                [] OTHER ->
                     IF JsonValid(reply.val[1])
                     THEN Returned(hr, Respond(StatusOK,
                                   JobMetaJSON(UnmarshalJobMeta(reply.val[1]))))
                     ELSE Returned(hr, Respond(StatusInternalServerError,
                                   [error |-> "failed to parse job meta"]))]
    /\ UNCHANGED << queue, kv, recent, w, uuids, clock, popped, call, p >>

\* GET /jobs/:job_id, lines 337-355
JobsGetMeta(r, jobID, fail) ==
    /\ Arrives(r)
    /\ LET reply == Get(Key(RedisJobMetaPrefix, jobID), fail)
           hr == [h[r] EXCEPT !.kind = "jobs", !.jobID = jobID, !.meta = reply]
       IN  h' = [h EXCEPT ![r] =
              CASE reply.err = "redis.Nil" ->
                     Returned(hr, Respond(StatusNotFound,
                                          [error |-> "job not found"]))
                [] reply.err = "error" ->
                     Returned(hr, Respond(StatusInternalServerError,
                                          [error |-> "redis error"]))
                [] OTHER ->
                     IF JsonValid(reply.val[1])
                     THEN Returned(hr, Respond(StatusOK,
                                   JobMetaJSON(UnmarshalJobMeta(reply.val[1]))))
                     ELSE Returned(hr, Respond(StatusInternalServerError,
                                   [error |-> "failed to parse job meta"]))]
    /\ UNCHANGED << queue, kv, recent, w, uuids, clock, popped, call, p >>

\* mutant of LRange: the stop position is taken as exclusive
LRangeExclusive(list, start, stop) ==
    SubSeq(list, start + 1, IF stop < Len(list) THEN stop ELSE Len(list))

\* LRANGE key start stop: the elements at the 0-based positions start..stop
\* that exist, head first
LRange(list, start, stop) ==
    SubSeq(list, start + 1, IF stop + 1 < Len(list) THEN stop + 1 ELSE Len(list))

\* mutant of ResultsList: the handler reads the whole index
ResultsListAll(r, fail) ==
    /\ Arrives(r)
    /\ LET reply == IF fail THEN [err |-> "error", val |-> None]
                    ELSE [err |-> "nil", val |-> Some(recent)]
           hr == [h[r] EXCEPT !.kind = "list", !.res = reply]
       IN  h' = [h EXCEPT ![r] =
              IF reply.err = "error"
              THEN Returned(hr, Respond(StatusInternalServerError,
                                        [error |-> "redis error"]))
              ELSE Returned(hr, Respond(StatusOK,
                                        [recent_job_ids |-> reply.val[1]]))]
    /\ UNCHANGED << queue, kv, recent, w, uuids, clock, popped, call, p >>

\* GET /results, lines 325-334: the first RecentListStop + 1 ids of the
\* recency index
ResultsList(r, fail) ==
    /\ Arrives(r)
    /\ LET reply == IF fail THEN [err |-> "error", val |-> None]
                    ELSE [err |-> "nil",
                          val |-> Some(LRange(recent, 0, RecentListStop))]
           hr == [h[r] EXCEPT !.kind = "list", !.res = reply]
       IN  h' = [h EXCEPT ![r] =
              IF reply.err = "error"
              THEN Returned(hr, Respond(StatusInternalServerError,
                                        [error |-> "redis error"]))
              ELSE Returned(hr, Respond(StatusOK,
                                        [recent_job_ids |-> reply.val[1]]))]
    /\ UNCHANGED << queue, kv, recent, w, uuids, clock, popped, call, p >>

(* --------------------------- the environment --------------------------- *)
\* The worker is outside this repository's Go code.  Its contract: it takes
\* payloads from the head of the queue, writes the result blob under
\* job_result:<id>, and updates the status in job_meta:<id>
\* (queued -> running -> done | error; on error no result is written).
SetField(doc, k, v) ==
    [x \in DOMAIN doc \cup {k} |-> IF x = k THEN v ELSE doc[x]]

\* the worker's status update for the job it holds.  When the record is
\* there, its status and updated_at are replaced; when it is not (not yet
\* written, its write failed, or expired) the worker either writes a record
\* made from the payload (upsert) or writes nothing.
WorkerMeta(status, error, upsert, now) ==
    LET job == w.job[1]
        key == Key(RedisJobMetaPrefix, job.job_id)
        old == IF kv[key] # None THEN kv[key][1]
               ELSE [job_id |-> job.job_id, status |-> status,
                     created_at |-> job.created_at, updated_at |-> now,
                     params |-> job.params,
                     result_key |-> Key(RedisResultsPrefix, job.job_id)]
        new == SetField(SetField(old, "status", status), "updated_at", now)
    IN  IF kv[key] = None /\ ~upsert THEN kv
        ELSE [kv EXCEPT ![key] =
                 Some(IF error = "" THEN new ELSE SetField(new, "error", error))]

WorkerPop ==
    /\ w.pc = "idle" /\ queue # << >>
    /\ w' = [pc |-> "popped", job |-> Some(Head(queue))]
    /\ queue' = Tail(queue)
    /\ popped' = Append(popped, Head(queue).job_id)
    /\ UNCHANGED << kv, recent, h, uuids, clock, call, p >>

WorkerRun(upsert, now) ==
    /\ w.pc = "popped"
    /\ kv' = WorkerMeta(StatusRunning, "", upsert, now)
    /\ w' = [w EXCEPT !.pc = "running"]
    /\ clock' = now
    /\ UNCHANGED << queue, recent, h, uuids, popped, call, p >>

WorkerWriteResult(blob) ==
    /\ w.pc = "running"
    /\ kv' = [kv EXCEPT ![Key(RedisResultsPrefix, w.job[1].job_id)] = Some(blob)]
    /\ w' = [w EXCEPT !.pc = "written"]
    /\ UNCHANGED << queue, recent, h, uuids, clock, popped, call, p >>

WorkerDone(upsert, now) ==
    /\ w.pc = "written"
    /\ kv' = WorkerMeta(StatusDone, "", upsert, now)
    /\ w' = [pc |-> "idle", job |-> None]
    /\ clock' = now
    /\ UNCHANGED << queue, recent, h, uuids, popped, call, p >>

WorkerFail(upsert, now) ==
    /\ w.pc = "running"
    /\ kv' = WorkerMeta(StatusError, "simulation failed", upsert, now)
    /\ w' = [pc |-> "idle", job |-> None]
    /\ clock' = now
    /\ UNCHANGED << queue, recent, h, uuids, popped, call, p >>

\* the TTL of a stored record runs out (DefaultResultTTL)
Expire(key) ==
    /\ kv[key] # None
    /\ kv' = [kv EXCEPT ![key] = None]
    /\ UNCHANGED << queue, recent, h, w, uuids, clock, popped, call, p >>

\* the handlers and the worker; no record expires
NextNoExpiry ==
    \/ \E r \in Reqs, body \in Bodies, now \in Now : SimulateBind(r, body, now)
    \/ \E r \in Reqs, fail \in BOOLEAN : SimulateRPush(r, fail)
    \/ \E r \in Reqs, fail \in BOOLEAN : SimulateSetMeta(r, fail)
    \/ \E r \in Reqs, fail \in BOOLEAN : SimulateLPush(r, fail)
    \/ \E r \in Reqs, fail \in BOOLEAN : SimulateLTrim(r, fail)
    \/ \E r \in Reqs, jobID \in 0..uuids, fail \in BOOLEAN : ResultsGetResult(r, jobID, fail)
    \/ \E r \in Reqs, fail \in BOOLEAN : ResultsGetMeta(r, fail)
    \/ \E r \in Reqs, jobID \in 0..uuids, fail \in BOOLEAN : JobsGetMeta(r, jobID, fail)
    \/ \E r \in Reqs, fail \in BOOLEAN : ResultsList(r, fail)
    \/ WorkerPop
    \/ \E upsert \in BOOLEAN, now \in Now : WorkerRun(upsert, now)
    \/ \E blob \in ResultBlobs : WorkerWriteResult(blob)
    \/ \E upsert \in BOOLEAN, now \in Now : WorkerDone(upsert, now)
    \/ \E upsert \in BOOLEAN, now \in Now : WorkerFail(upsert, now)

Next ==
    \/ NextNoExpiry
    \/ \E key \in Keys : Expire(key)

Spec == Init /\ [][Next]_vars

\* the server while every record is younger than its TTL
SpecNoExpiry == Init /\ [][NextNoExpiry]_vars

(* ------------------- submissions against a full index ------------------- *)
\* The server after earlier traffic: k jobs were submitted one after the
\* other, the worker has taken their payloads and their records have
\* expired, so that only the recency index remembers them.  The i-th most
\* recent of them has the id -i; the ids generated from now on are 1, 2, ...
Earlier(k) == [i \in 1..k |-> 0 - i]

InitRecent ==
    /\ \E k \in {0, RecentJobsMaxRetain} : recent = Earlier(k)
    /\ queue = << >>
    /\ kv = [k \in Keys |-> None]
    /\ h = [r \in Reqs |-> IdleHandler]
    /\ w = [pc |-> "idle", job |-> None]
    /\ popped = << >>
    /\ uuids = 0
    /\ clock = 0
    /\ given = ZeroParams /\ filled = ZeroParams /\ calls = 0
    /\ p = PollerOff

\* submissions and reads of the recency index; the worker is at rest and
\* nothing expires
NextRecent ==
    \/ \E r \in Reqs, body \in RecentBodies, now \in Now : SimulateBind(r, body, now)
    \/ \E r \in Reqs, fail \in BOOLEAN : SimulateRPush(r, fail)
    \/ \E r \in Reqs, fail \in BOOLEAN : SimulateSetMeta(r, fail)
    \/ \E r \in Reqs, fail \in BOOLEAN : SimulateLPush(r, fail)
    \/ \E r \in Reqs, fail \in BOOLEAN : SimulateLTrim(r, fail)
    \/ \E r \in Reqs, fail \in BOOLEAN : ResultsList(r, fail)

SpecRecent == InitRecent /\ [][NextRecent]_vars

(* ------------------------ applyDefaults on its own ---------------------- *)
\* the sets of at most n fields
RECURSIVE FieldSets(_)
FieldSets(n) ==
    IF n = 0 THEN { {} }
    ELSE LET fewer == FieldSets(n - 1)
         IN  fewer \cup { S \cup {f} : S \in fewer, f \in Fields }

\* the values a caller sets a field to: a pointer to 0 or to 7, a date
CallerValue(f, c) ==
    IF f \in FloatFields THEN (IF c = 0 THEN "0" ELSE "7")
    ELSE (IF c = 0 THEN "2025-11-01" ELSE "2025-11-02")

\* the parameter records with at most MaxSet fields set
ParamRecords ==
    UNION { { [f \in Fields |-> IF f \in S THEN CallerValue(f, c[f]) ELSE ZeroValue(f)]
                : c \in [S -> {0, 1}] }
            : S \in FieldSets(MaxSet) }

InitDefaults ==
    /\ given \in ParamRecords
    /\ filled = given
    /\ calls = 0
    /\ p = PollerOff
    /\ queue = << >>
    /\ kv = [k \in Keys |-> None]
    /\ recent = << >>
    /\ h = [r \in Reqs |-> IdleHandler]
    /\ w = [pc |-> "idle", job |-> None]
    /\ popped = << >>
    /\ uuids = 0
    /\ clock = 0

\* applyDefaults(&params), called on the record once more
CallApplyDefaults ==
    /\ calls < MaxCalls
    /\ filled' = applyDefaults(filled)
    /\ calls' = calls + 1
    /\ UNCHANGED << given, queue, kv, recent, h, w, popped, uuids, clock, p >>

NextDefaults == CallApplyDefaults

SpecDefaults == InitDefaults /\ [][NextDefaults]_vars

(* --------------------------- the browser client ------------------------ *)
\* The form handler of the frontend (src/frontend/src/lib/api.ts): it posts
\* one job with submitSimulation and then waits for it in getJobResults.
\* The client's request to POST /simulate is served in handler slot 1 and
\* each of its queries of GET /results/:job_id in slot 2, which is free
\* again once the client has taken the answer.  Client time is counted in
\* milliseconds since getJobResults was entered; everything at or beyond
\* maxWait is the same to the loop, so the count stops there.

\* how many poll intervals make up maxWait
MaxWaitIntervals == 2

\* setTimeout(resolve, 2000), line 80
PollInterval == 2000

\* the maxWait argument of getJobResults (120000 at line 259, 60 intervals)
maxWait == MaxWaitIntervals * PollInterval

\* how long one fetch may take: no time at all, or a whole interval
Latencies == { 0, PollInterval }

SubmitSlot == 1
PollSlot   == 2

Min(a, b) == IF a < b THEN a ELSE b

\* response.ok, line 21: the status is in the range 200-299
ResponseOk(resp) == resp.code \in { StatusOK, StatusAccepted }

InitPoll ==
    /\ queue = << >>
    /\ kv = [k \in Keys |-> None]
    /\ recent = << >>
    /\ h = [r \in Reqs |-> IdleHandler]
    /\ w = [pc |-> "idle", job |-> None]
    /\ popped = << >>
    /\ uuids = 0
    /\ clock = 0
    /\ given = ZeroParams /\ filled = ZeroParams /\ calls = 0
    /\ p = [PollerOff EXCEPT !.pc = "submit"]

\* submitSimulation, lines 29-40, called at line 229: the POST reaches the
\* server
submitSimulation(now) ==
    /\ p.pc = "submit"
    /\ SimulateBind(SubmitSlot, BodyChicago, now)

\* lines 21-25 for the POST and lines 254-259, 64: fetchAPI throws on an
\* answer that is not ok, and handleSubmit ends without polling; otherwise
\* getJobResults(jobResponse.job_id, maxWait) is entered
handleSubmit ==
    /\ p.pc = "submit"
    /\ h[SubmitSlot].kind = "simulate" /\ h[SubmitSlot].pc = "done"
    /\ LET resp == h[SubmitSlot].resp[1]
       IN  p' = IF ResponseOk(resp)
                THEN [p EXCEPT !.pc = "loop", !.jobID = resp.body.job_id]
                ELSE [p EXCEPT !.pc = "nosubmit"]
    /\ UNCHANGED << queue, kv, recent, h, w, popped, uuids, clock, call >>

\* lines 66 and 83: while (Date.now() - startTime < maxWait), and the throw
\* after the loop
getJobResultsLoop ==
    /\ p.pc = "loop"
    /\ p' = IF p.elapsed < maxWait
            THEN [p EXCEPT !.pc = "fetch", !.polls = @ + 1]
            ELSE [p EXCEPT !.pc = "ended", !.outcome = "timeout"]
    /\ UNCHANGED << queue, kv, recent, h, w, popped, uuids, clock, call >>

\* lines 67-71 and 13: the query reaches the server
getJobResultsFetch(fail) ==
    /\ p.pc = "fetch"
    /\ ResultsGetResult(PollSlot, p.jobID, fail)

\* the server carries on with the client's query
getJobResultsServed(fail) ==
    /\ p.pc = "fetch"
    /\ ResultsGetMeta(PollSlot, fail)

\* lines 21-25 and 73-80: the answer arrives.  fetchAPI throws on an answer
\* that is not ok and nothing in getJobResults catches it; status done is
\* returned, status error is thrown as "Job failed"; on anything else the
\* client sleeps for the interval and tests the loop condition again
getJobResultsAnswer(latency) ==
    /\ p.pc = "fetch"
    /\ h[PollSlot].kind = "results" /\ h[PollSlot].pc = "done"
    /\ LET resp == h[PollSlot].resp[1]
           pr == [p EXCEPT !.last = Some(resp)]
       IN  p' = CASE ~ResponseOk(resp) ->
                       [pr EXCEPT !.pc = "ended", !.outcome = "api error"]
                  [] ResponseOk(resp) /\ resp.body.status = "done" ->
                       [pr EXCEPT !.pc = "ended", !.outcome = "returned"]
                  [] ResponseOk(resp) /\ resp.body.status = "error" ->
                       [pr EXCEPT !.pc = "ended", !.outcome = "job failed"]
                  [] OTHER ->
                       [pr EXCEPT !.pc = "loop",
                          !.elapsed = Min(maxWait, @ + latency + PollInterval)]
    /\ h' = [h EXCEPT ![PollSlot] = IdleHandler]
    /\ UNCHANGED << queue, kv, recent, w, popped, uuids, clock, call >>

\* one client, the server and a worker that creates the metadata record
\* when it finds none; no record expires while the client waits
NextPoll ==
    \/ \E now \in Now : submitSimulation(now)
    \/ \E fail \in BOOLEAN : SimulateRPush(SubmitSlot, fail)
    \/ \E fail \in BOOLEAN : SimulateSetMeta(SubmitSlot, fail)
    \/ \E fail \in BOOLEAN : SimulateLPush(SubmitSlot, fail)
    \/ \E fail \in BOOLEAN : SimulateLTrim(SubmitSlot, fail)
    \/ handleSubmit
    \/ getJobResultsLoop
    \/ \E fail \in BOOLEAN : getJobResultsFetch(fail)
    \/ \E fail \in BOOLEAN : getJobResultsServed(fail)
    \/ \E latency \in Latencies : getJobResultsAnswer(latency)
    \/ WorkerPop
    \/ \E now \in Now : WorkerRun(TRUE, now)
    \/ \E blob \in ResultBlobs : WorkerWriteResult(blob)
    \/ \E now \in Now : WorkerDone(TRUE, now)
    \/ \E now \in Now : WorkerFail(TRUE, now)

SpecPoll == InitPoll /\ [][NextPoll]_vars

TypeOKPoll ==
    /\ p.pc \in {"submit", "nosubmit", "loop", "fetch", "ended"}
    /\ p.elapsed \in 0..maxWait
    /\ p.polls \in 0..MaxWaitIntervals
    /\ p.outcome \in {"none", "returned", "job failed", "api error", "timeout"}

(* ----------------- queries against what others have stored ------------- *)
\* GET /results/:job_id and GET /jobs/:job_id for one job whose payload the
\* worker has taken, while the writers of the shared store (the worker, or
\* any other client of the Redis instance) put values under the job's two
\* keys: job records as the submission handler and the worker write them,
\* and values that are no such record.
StoredJob == 1

StoredParams == applyDefaults(BindJSON(BodyChicago))

\* the record as the submission handler wrote it
QueuedMeta == SubmissionMeta(StoredJob, 0, StoredParams)

\* the record after a status update of the worker
UpdatedMeta(status, error) ==
    LET new == SetField(SetField(QueuedMeta, "status", status), "updated_at", 1)
    IN  IF error = "" THEN new ELSE SetField(new, "error", error)

\* the records the submission handler and the worker write
JobRecords ==
    { QueuedMeta, UpdatedMeta(StatusRunning, ""), UpdatedMeta(StatusDone, ""),
      UpdatedMeta(StatusError, "simulation failed") }

\* values that are no job record: a status outside the four, no status at
\* all, and a text that is not JSON
ForeignMetas ==
    { UpdatedMeta("failed", ""),
      [k \in DOMAIN QueuedMeta \ {"status"} |-> QueuedMeta[k]],
      NotJSON("not a record") }

StoredMetas == JobRecords \cup ForeignMetas

InitStored ==
    /\ queue = << >>
    /\ kv = [k \in Keys |-> None]
    /\ recent = << StoredJob >>
    /\ h = [r \in Reqs |-> IdleHandler]
    /\ w = [pc |-> "idle", job |-> None]
    /\ popped = << StoredJob >>
    /\ uuids = StoredJob
    /\ clock = 0
    /\ given = ZeroParams /\ filled = ZeroParams /\ calls = 0
    /\ p = PollerOff

\* SET job_meta:<id> by a writer of the store
StoreMeta(doc) ==
    /\ kv[Key(RedisJobMetaPrefix, StoredJob)] # Some(doc)
    /\ kv' = [kv EXCEPT ![Key(RedisJobMetaPrefix, StoredJob)] = Some(doc)]
    /\ UNCHANGED << queue, recent, h, w, popped, uuids, clock, call, p >>

\* SET job_result:<id> by a writer of the store
StoreResult(blob) ==
    /\ kv[Key(RedisResultsPrefix, StoredJob)] # Some(blob)
    /\ kv' = [kv EXCEPT ![Key(RedisResultsPrefix, StoredJob)] = Some(blob)]
    /\ UNCHANGED << queue, recent, h, w, popped, uuids, clock, call, p >>

NextStored ==
    \/ \E doc \in StoredMetas : StoreMeta(doc)
    \/ \E blob \in ResultBlobs : StoreResult(blob)
    \/ \E r \in Reqs, fail \in BOOLEAN : ResultsGetResult(r, StoredJob, fail)
    \/ \E r \in Reqs, fail \in BOOLEAN : ResultsGetMeta(r, fail)
    \/ \E r \in Reqs, fail \in BOOLEAN : JobsGetMeta(r, StoredJob, fail)

SpecStored == InitStored /\ [][NextStored]_vars

(* ------------------------------- claims -------------------------------- *)
Submission(r) == h[r].kind = "simulate"
Query(r)      == h[r].kind = "results"
JobsQuery(r)  == h[r].kind = "jobs"
ListQuery(r)  == h[r].kind = "list"
Answered(r)   == h[r].pc = "done"
MetaOf(jobID) == kv[Key(RedisJobMetaPrefix, jobID)]
Queued(jobID) == \E i \in 1..Len(queue) : queue[i].job_id = jobID

\* C1: every submission whose body decodes and whose enqueue succeeds is
\* answered, once it answers, 202 with status "queued" and a job_id that no
\* other submission of the run was answered with.
C1_AcceptedUniqueQueued ==
    \A r \in Reqs :
        (Submission(r) /\ Answered(r) /\ h[r].errPush = "ok") =>
            /\ h[r].resp = Respond(StatusAccepted,
                                   [job_id |-> h[r].jobID, status |-> "queued"])
            /\ \A q \in Reqs \ {r} :
                  (Submission(q) /\ h[q].errBind = "ok") => h[q].jobID # h[r].jobID

\* two submissions have both been accepted
C1_Witness ==
    \E r, q \in Reqs :
        /\ r # q
        /\ Submission(r) /\ Answered(r) /\ h[r].errPush = "ok"
        /\ Submission(q) /\ Answered(q) /\ h[q].errPush = "ok"

\* C2: the Set of job_meta:<id> by the submission handler never replaces a
\* status the record holds with an earlier one of queued -> running ->
\* done | error.
C2_CoreNeverMovesStatusBack ==
    [][ \A r \in Reqs :
          LET old  == MetaOf(h[r].jobID)
              new  == MetaOf(h[r].jobID)'
              rank(st) == CASE st = "queued" -> 0 [] st = "running" -> 1 [] OTHER -> 2
          IN  (Submission(r) /\ h[r].pc = "setmeta" /\ h'[r].pc # "setmeta"
                 /\ old # None /\ new # None)
              => rank(new[1].status) >= rank(old[1].status) ]_vars

\* C3: a submission whose enqueue failed is answered 500 and has written
\* nothing: its job id has no metadata record, no recency entry and no
\* payload, then and ever after.
C3_EnqueueFailureWritesNothing ==
    \A r \in Reqs :
        (Submission(r) /\ h[r].errPush = "fail") =>
            /\ Answered(r)
            /\ h[r].resp[1].code = StatusInternalServerError
            /\ h[r].errMeta = "none" /\ h[r].errLPush = "none" /\ h[r].errTrim = "none"
            /\ MetaOf(h[r].jobID) = None
            /\ \A i \in 1..Len(recent) : recent[i] # h[r].jobID
            /\ ~Queued(h[r].jobID)

\* a submission's RPush has failed
C3_Witness ==
    \E r \in Reqs : Submission(r) /\ h[r].errPush = "fail" /\ h[r].resp # None

\* C4: a submission whose enqueue succeeded and whose metadata write failed
\* goes on to the recency push, is answered 202 with its job id and status
\* queued, and its payload is still on the queue unless the worker took it.
C4_MetaFailureIsNotFatal ==
    \A r \in Reqs :
        (Submission(r) /\ h[r].errPush = "ok" /\ h[r].errMeta = "fail") =>
            /\ Queued(h[r].jobID) \/ \E i \in 1..Len(popped) : popped[i] = h[r].jobID
            /\ h[r].pc = "lpush" \/ h[r].errLPush \in {"ok", "fail"}
            /\ Answered(r) =>
                  h[r].resp = Respond(StatusAccepted,
                                      [job_id |-> h[r].jobID, status |-> "queued"])

\* a submission has answered after its metadata write failed, with its
\* payload still waiting on the queue
C4_Witness ==
    \E r \in Reqs :
        /\ Submission(r) /\ Answered(r)
        /\ h[r].errPush = "ok" /\ h[r].errMeta = "fail"
        /\ Queued(h[r].jobID)

\* C5: the step of a submission in which the head insert or the trim of the
\* recency index fails answers 202 with the job id and status queued, and
\* changes neither the queue nor any stored record.
C5_RecencyFailureIsNotFatal ==
    [][ \A r \in Reqs :
          (Submission(r) /\ h'[r] # h[r]
             /\ (h'[r].errLPush = "fail" \/ h'[r].errTrim = "fail"))
          => /\ h[r].errPush = "ok"
             /\ h'[r].pc = "done"
             /\ h'[r].resp = Respond(StatusAccepted,
                                     [job_id |-> h[r].jobID, status |-> "queued"])
             /\ UNCHANGED << queue, kv >> ]_vars

\* a submission has answered after its recency update failed, its metadata
\* record written and in place
C5_Witness ==
    \E r \in Reqs :
        /\ Submission(r) /\ Answered(r)
        /\ h[r].errMeta = "ok"
        /\ h[r].errLPush = "fail" \/ h[r].errTrim = "fail"
        /\ MetaOf(h[r].jobID) # None

\* C6: a submission whose body cannot be decoded takes one step only: it
\* answers 400 and leaves the queue, every metadata and result record and
\* the recency index as they were.
C6_BadBodyMutatesNothing ==
    [][ \A r \in Reqs :
          (h'[r] # h[r] /\ h'[r].kind = "simulate" /\ h'[r].errBind = "fail")
          => /\ h[r].kind = "idle"
             /\ h'[r].pc = "done"
             /\ h'[r].resp[1].code = StatusBadRequest
             /\ UNCHANGED << queue, kv, recent >> ]_vars

\* a body that does not decode has been answered while the store holds a
\* queued payload
C6_Witness ==
    \E r \in Reqs :
        /\ Submission(r) /\ h[r].errBind = "fail" /\ Answered(r)
        /\ queue # << >>

\* C7: a query whose read of job_result:<id> returned a value is answered
\* 200 with status done and the stored document as result (the parsed
\* document, or the raw text when it is not JSON), whatever job_meta:<id>
\* holds.
C7_StoredResultIsDone ==
    \A r \in Reqs :
        (Query(r) /\ h[r].res.err = "nil") =>
            /\ Answered(r)
            /\ h[r].resp =
                 Respond(StatusOK,
                         [job_id |-> h[r].jobID, status |-> "done",
                          result |-> << IF h[r].res.val[1] \in JsonTexts
                                        THEN "json" ELSE "str",
                                        h[r].res.val[1] >>])

\* a query has read a stored result while the metadata record of the job
\* says queued or running
C7_Witness ==
    \E r \in Reqs :
        /\ Query(r) /\ Answered(r) /\ h[r].res.err = "nil"
        /\ MetaOf(h[r].jobID) # None
        /\ MetaOf(h[r].jobID)[1].status \in {"queued", "running"}

\* C8: a query that found no result blob and read a metadata record is
\* answered 200 with the status field of that record and no result field.
C8_FallbackReportsMetaStatus ==
    \A r \in Reqs :
        (Query(r) /\ h[r].res.err = "redis.Nil" /\ h[r].meta.err = "nil") =>
            /\ Answered(r)
            /\ h[r].resp = Respond(StatusOK,
                                   [job_id |-> h[r].jobID,
                                    status |-> h[r].meta.val[1].status])

\* a query has fallen back to a metadata record whose status is error
C8_Witness ==
    \E r \in Reqs :
        /\ Query(r) /\ Answered(r)
        /\ h[r].res.err = "redis.Nil" /\ h[r].meta.err = "nil"
        /\ h[r].meta.val[1].status = "error"

\* C9: a query is answered 404 exactly when neither job_result:<id> nor
\* job_meta:<id> exists when it reads them: an answer of 404 means that
\* both were absent, and a query that reads both without a store error and
\* finds neither answers 404.
C9_NotFoundIffNeitherExists ==
    [][ \A r \in Reqs :
          (h[r].pc = "getmeta" /\ h'[r].pc = "done") =>
              /\ h'[r].resp[1].code = StatusNotFound
                    => (h[r].res.err = "redis.Nil" /\ MetaOf(h[r].jobID) = None)
              /\ (h[r].res.err = "redis.Nil" /\ h'[r].meta.err = "redis.Nil")
                    => h'[r].resp[1].code = StatusNotFound ]_vars

\* C10: a query one of whose reads failed with a store error is answered
\* 500.
C10_StoreErrorIs500 ==
    \A r \in Reqs :
        (Query(r) /\ Answered(r) /\ (h[r].res.err = "error" \/ h[r].meta.err = "error"))
            => h[r].resp[1].code = StatusInternalServerError

\* C11: every answer to GET /results/:job_id that carries a result field
\* has status done; an answer whose status is queued, running or error
\* carries no result field.
C11_ResultOnlyWithDone ==
    \A r \in Reqs :
        (Query(r) /\ Answered(r)) =>
            LET b == h[r].resp[1].body
            IN  /\ "result" \in DOMAIN b
                     => ("status" \in DOMAIN b /\ b.status = "done")
                /\ ("status" \in DOMAIN b /\ b.status \in {"queued", "running", "error"})
                     => "result" \notin DOMAIN b

\* one query has been answered with a result, and it says done, while the
\* metadata record of that job is absent
C11_Witness ==
    \E r \in Reqs :
        /\ Query(r) /\ Answered(r)
        /\ "result" \in DOMAIN h[r].resp[1].body
        /\ h[r].resp[1].body.status = "done"
        /\ MetaOf(h[r].jobID) = None

\* C12: GET /jobs/:job_id answers 200 with the metadata record when its read
\* of job_meta:<id> returns one, 404 when the record is absent and 500 when
\* the read fails with a store error; a result stored under
\* job_result:<id> makes no difference to the answer.
C12_JobsAnswersFromMetaOnly ==
    \A r \in Reqs :
        JobsQuery(r) =>
            /\ Answered(r)
            /\ h[r].resp =
                 CASE h[r].meta.err = "nil" ->
                        Respond(StatusOK, h[r].meta.val[1])
                   [] h[r].meta.err = "redis.Nil" ->
                        Respond(StatusNotFound, [error |-> "job not found"])
                   [] OTHER ->
                        Respond(StatusInternalServerError, [error |-> "redis error"])

\* GET /jobs/:job_id has answered 404 for a job whose result is stored
C12_Witness ==
    \E r \in Reqs :
        /\ JobsQuery(r) /\ Answered(r)
        /\ h[r].resp[1].code = StatusNotFound
        /\ MetaOf(h[r].jobID) = None
        /\ kv[Key(RedisResultsPrefix, h[r].jobID)] # None

\* C13: in every reachable state, the states between a head insert and its
\* trim and the states after a failed trim included, the recency index
\* holds at most RecentJobsMaxRetain ids.
C13_IndexNeverAboveCap == Len(recent) <= RecentJobsMaxRetain

\* the submissions in progress or served have had every store operation
\* succeed, and all of them have been answered
AllSubmissionsSucceeded ==
    \A r \in Reqs :
        Submission(r) =>
            /\ Answered(r)
            /\ h[r].errPush # "fail" /\ h[r].errMeta # "fail"
            /\ h[r].errLPush # "fail" /\ h[r].errTrim # "fail"

\* C14: once every submission has completed, and none of their store
\* operations failed, the recency index holds at most RecentJobsMaxRetain
\* ids, however the submissions were interleaved.
C14_CompletedInsertsWithinCap ==
    AllSubmissionsSucceeded => Len(recent) <= RecentJobsMaxRetain

\* two submissions that overlapped (the one that arrived first inserted its
\* id last) have completed against an index that was full, and the index
\* is full again
C14_Witness ==
    /\ AllSubmissionsSucceeded
    /\ \E r, q \in Reqs :
          /\ r < q /\ Submission(r) /\ Submission(q)
          /\ h[r].errTrim = "ok" /\ h[q].errTrim = "ok"
          /\ Len(recent) = RecentJobsMaxRetain
          /\ recent[1] = h[r].jobID /\ recent[2] = h[q].jobID
          /\ recent[3] < 0

\* how many jobs have been submitted with success, one after the other:
\* the earlier ones that filled the index, and the ones served since
EarlierSubmissions ==
    IF \E i \in 1..Len(recent) : recent[i] < 0 THEN RecentJobsMaxRetain ELSE 0
SubmittedInSequence(n) ==
    /\ AllSubmissionsSucceeded
    /\ \A r \in Reqs : Submission(r) => h[r].errTrim = "ok"
    /\ EarlierSubmissions + Cardinality({ r \in Reqs : Submission(r) }) = n
    /\ Cardinality({ r \in Reqs : Submission(r) }) <= 1

\* the ids of an answer to GET /results
ListedIds(hr) == hr.resp[1].body.recent_job_ids

\* C15 as stated: GET /results, served after RecentJobsMaxRetain + 1
\* successful sequential submissions, returns exactly RecentJobsMaxRetain
\* ids, the most recently submitted first.
C15_ListReturnsCapIds ==
    [][ \A r \in Reqs :
          ( /\ h[r].kind = "idle" /\ h'[r].kind = "list"
            /\ h'[r].res.err = "nil"
            /\ SubmittedInSequence(RecentJobsMaxRetain + 1) )
          => LET ids == ListedIds(h'[r])
             IN  /\ Len(ids) = RecentJobsMaxRetain
                 /\ \A s \in Reqs : Submission(s) => ids[1] = h[s].jobID
                 /\ \A i \in 2..Len(ids) : ids[i] = 1 - i ]_vars

\* C15 amended: GET /results, served after RecentJobsMaxRetain + 1
\* successful sequential submissions, returns exactly RecentListStop + 1
\* (50) ids: the 50 most recently submitted, the most recent first.
C15_ListReturnsFiftyIds ==
    [][ \A r \in Reqs :
          ( /\ h[r].kind = "idle" /\ h'[r].kind = "list"
            /\ h'[r].res.err = "nil"
            /\ SubmittedInSequence(RecentJobsMaxRetain + 1) )
          => LET ids == ListedIds(h'[r])
             IN  /\ Len(ids) = RecentListStop + 1
                 /\ \A s \in Reqs : Submission(s) => ids[1] = h[s].jobID
                 /\ \A i \in 2..Len(ids) : ids[i] = 1 - i ]_vars

\* GET /results has been answered after the submission that followed
\* RecentJobsMaxRetain earlier ones, with that submission's id first
C15_Witness ==
    /\ SubmittedInSequence(RecentJobsMaxRetain + 1)
    /\ \E r, s \in Reqs :
          /\ ListQuery(r) /\ Answered(r) /\ h[r].res.err = "nil"
          /\ Submission(s)
          /\ ListedIds(h[r])[1] = h[s].jobID
          /\ Len(recent) = RecentJobsMaxRetain

\* the position of a job id in a list of ids, head = 1 (0 when absent)
PosIn(list, jobID) ==
    IF \E i \in 1..Len(list) : list[i] = jobID
    THEN CHOOSE i \in 1..Len(list) : list[i] = jobID
    ELSE 0
QueuedIds == [i \in 1..Len(queue) |-> queue[i].job_id]

\* C16 as stated: of two job ids that are both in the recency index, the
\* one whose payload was enqueued later is nearer the head, whatever the
\* interleaving of the submissions.
C16_RecencyReversesQueueOrder ==
    \A r, q \in Reqs :
        LET a == h[r].jobID
            b == h[q].jobID
        IN  ( /\ Submission(r) /\ Submission(q)
              /\ PosIn(recent, a) > 0 /\ PosIn(recent, b) > 0
              /\ PosIn(QueuedIds, a) > 0
              /\ PosIn(QueuedIds, a) < PosIn(QueuedIds, b) )
            => PosIn(recent, b) < PosIn(recent, a)

\* C16 amended: the recency order is the reverse of the order of the head
\* inserts.  Every step that changes the index either puts the id of a
\* submission at its head, in front of every id inserted before, or cuts
\* ids off its tail; the ids that stay keep their order.
C16_LaterInsertNearerHead ==
    [][ \/ recent' = recent
        \/ \E r \in Reqs :
              /\ Submission(r) /\ h[r].pc = "lpush"
              /\ PosIn(recent, h[r].jobID) = 0
              /\ PosIn(QueuedIds, h[r].jobID) > 0
              /\ recent' = << h[r].jobID >> \o recent
        \/ \E n \in 0..Len(recent) : recent' = SubSeq(recent, 1, n) ]_vars

\* two submissions overlapped: the payload of the first was enqueued first
\* and its id was inserted last, so it is the nearer to the head
C16_Witness ==
    \E r, q \in Reqs :
        /\ Submission(r) /\ Submission(q)
        /\ PosIn(QueuedIds, h[r].jobID) = 1 /\ PosIn(QueuedIds, h[q].jobID) = 2
        /\ PosIn(recent, h[r].jobID) = 1 /\ PosIn(recent, h[q].jobID) = 2

\* C17: GET /results, when its read succeeds, answers 200 with the first
\* min(50, length) ids of the recency index in head-first order (the empty
\* list when the index is empty), and it leaves the index as it was.
C17_ListIsHeadOfIndex ==
    [][ \A r \in Reqs :
          (h[r].kind = "idle" /\ h'[r].kind = "list" /\ h'[r].res.err = "nil")
          => LET n == IF Len(recent) < RecentListStop + 1
                      THEN Len(recent) ELSE RecentListStop + 1
             IN  /\ h'[r].resp[1].code = StatusOK
                 /\ DOMAIN h'[r].resp[1].body = {"recent_job_ids"}
                 /\ Len(ListedIds(h'[r])) = n
                 /\ \A i \in 1..n : ListedIds(h'[r])[i] = recent[i]
                 /\ recent' = recent ]_vars

\* GET /results has answered with 50 ids while the index holds more, and
\* the index still holds them
C17_Witness ==
    \E r \in Reqs :
        /\ ListQuery(r) /\ Answered(r) /\ h[r].res.err = "nil"
        /\ Len(ListedIds(h[r])) = RecentListStop + 1
        /\ Len(recent) > RecentListStop + 1
        /\ \A i \in 1..(RecentListStop + 1) : ListedIds(h[r])[i] = recent[i]

\* GET /results has answered 200 with the empty list
C17_EmptyListAnswered ==
    \E r \in Reqs :
        /\ ListQuery(r) /\ Answered(r)
        /\ h[r].resp[1].code = StatusOK
        /\ ListedIds(h[r]) = << >>

\* C18: applyDefaults is idempotent and non-destructive: a call leaves every
\* field that was set before it as it was, and a call on a record that has
\* been through applyDefaults already changes nothing.
C18_DefaultsIdempotentNonDestructive ==
    [][ calls' = calls + 1 =>
          /\ \A f \in Fields : filled[f] # ZeroValue(f) => filled'[f] = filled[f]
          /\ calls >= 1 => filled' = filled ]_vars

\* applyDefaults has been called twice on a record in which the caller had
\* set a field that has a default to another value
C18_Witness ==
    /\ calls = 2
    /\ given["A_glass"] = "7" /\ filled["A_glass"] = "7"
    /\ filled # given

\* the defaults, as the tests and the handler's documentation state them
DefaultOf(f) ==
    CASE f = "A_glass"          -> "50"
      [] f = "tau_glass"        -> "0.85"
      [] f = "U_day"            -> "3"
      [] f = "U_night"          -> "0.6"
      [] f = "ACH"              -> "0.5"
      [] f = "Volume"           -> "100"
      [] f = "CpMass"           -> "4186"
      [] f = "T_init"           -> "15"
      [] f = "Setpoint"         -> "12"
      [] f = "HeaterMaxW"       -> "5000"
      [] f = "FractionSolarAir" -> "0.5"
      [] f = "C"                -> "20000000"
\* the fields that get their default whenever they are unset, and the
\* fields that have no default
AlwaysDefaulted ==
    { "A_glass", "tau_glass", "U_day", "U_night", "ACH", "Volume", "CpMass",
      "T_init", "Setpoint", "HeaterMaxW", "FractionSolarAir" }
NeverDefaulted ==
    { "ThermalMass", "ThermalMassKg", "VentilationRate", "Lat", "Lon",
      "EvapRate", "StartDate", "EndDate" }

\* C19 as stated: after default-filling every field of the record is set,
\* and each field that was unset on input holds its default.
C19_EveryFieldSetAfterwards ==
    calls >= 1 =>
        \A f \in Fields :
            /\ filled[f] # ZeroValue(f)
            /\ (given[f] = ZeroValue(f) /\ f \in AlwaysDefaulted \cup {"C"})
                   => filled[f] = DefaultOf(f)

\* C19 amended: after default-filling, each of the eleven fields A_glass,
\* tau_glass, U_day, U_night, ACH, Volume, CpMass, T_init, Setpoint,
\* HeaterMaxW, FractionSolarAir holds the caller's value, or its default
\* when it was unset; C holds the caller's value, or its default when both
\* C and ThermalMassKg were unset, and stays unset when only ThermalMassKg
\* was given; the eight other fields are as the caller left them.
C19_DefaultedFieldsSetAfterwards ==
    calls >= 1 =>
        /\ \A f \in AlwaysDefaulted :
              filled[f] = IF given[f] = "nil" THEN DefaultOf(f) ELSE given[f]
        /\ filled["C"] = IF given["C"] = "nil" /\ given["ThermalMassKg"] = "nil"
                         THEN DefaultOf("C") ELSE given["C"]
        /\ \A f \in NeverDefaulted : filled[f] = given[f]
        /\ AlwaysDefaulted \cup NeverDefaulted \cup {"C"} = Fields

\* applyDefaults has run on a record in which the caller set ThermalMassKg
\* and the setpoint but neither C nor the latitude
C19_Witness ==
    /\ calls >= 1
    /\ given["ThermalMassKg"] # "nil" /\ given["Setpoint"] = "7"
    /\ filled["C"] = "nil" /\ filled["Setpoint"] = "7" /\ filled["ACH"] = "0.5"
    /\ filled["Lat"] = "nil"

\* C20: for every accepted submission whose metadata write succeeded, the
\* params of the stored metadata record are the default-filled request:
\* each field the request body gives has the given value, and each field
\* it leaves out that has a default has that default.
C20_MetaParamsAreFilledRequest ==
    \A r \in Reqs :
        (Submission(r) /\ h[r].errMeta = "ok") =>
            LET stored == MetaOf(h[r].jobID)[1].params
                sent   == h[r].body[1].obj
            IN  \A f \in Fields :
                   LET k == JsonTag(f)
                   IN  IF k \in DOMAIN sent
                       THEN k \in DOMAIN stored /\ stored[k] = sent[k]
                       ELSE ( \/ f \in AlwaysDefaulted
                              \/ f = "C" /\ "thermal_mass_kg" \notin DOMAIN sent )
                            => (k \in DOMAIN stored /\ stored[k] = Num(DefaultOf(f)))

\* C21: for every submission whose enqueue and metadata write both
\* succeeded, the payload in the queue and the metadata record the handler
\* wrote carry the same job id, the same created_at and the same params.
C21_PayloadAndMetaAgree ==
    \A r \in Reqs :
        (Submission(r) /\ h[r].errPush = "ok" /\ h[r].errMeta = "ok") =>
            \E i \in 1..Len(queue) :
                LET doc == MetaOf(h[r].jobID)[1]
                IN  /\ queue[i].job_id = h[r].jobID
                    /\ doc.job_id = queue[i].job_id
                    /\ doc.created_at = queue[i].created_at
                    /\ doc.params = queue[i].params

\* the second of two submissions, made when the clock had moved on, has
\* written its record and its payload is in the queue behind the first
C21_Witness ==
    \E r \in Reqs :
        /\ Submission(r) /\ h[r].errPush = "ok" /\ h[r].errMeta = "ok"
        /\ Len(queue) = 2 /\ queue[2].job_id = h[r].jobID
        /\ queue[2].created_at > queue[1].created_at
        /\ "A_glass" \in DOMAIN queue[2].params

\* C24: every step of a GET handler (GET /results/:job_id, GET /jobs/:job_id,
\* GET /results) leaves the queue, every metadata record, every result
\* record and the recency index as they were.
C24_GetHandlersChangeNothing ==
    [][ \A r \in Reqs :
          (h'[r] # h[r] /\ h'[r].kind \in {"results", "jobs", "list"})
          => UNCHANGED << queue, kv, recent >> ]_vars

\* GET /results/:job_id has answered with a result that is still stored,
\* next to the metadata record of the job and its id in the recency index
C24_Witness ==
    \E r \in Reqs :
        /\ Query(r) /\ Answered(r) /\ h[r].res.err = "nil"
        /\ kv[Key(RedisResultsPrefix, h[r].jobID)] = h[r].res.val
        /\ MetaOf(h[r].jobID) # None
        /\ recent = << h[r].jobID >>

\* the job of a submission whose payload was enqueued and whose metadata
\* write failed
MetaWriteFailed(jobID) ==
    \E s \in Reqs :
        /\ Submission(s) /\ h[s].jobID = jobID
        /\ h[s].errPush = "ok" /\ h[s].errMeta = "fail"

C26_CoreWritesMetaOnceOnly ==
    [][ h' # h =>
          /\ \A id \in Ids :
                kv'[Key(RedisResultsPrefix, id)] = kv[Key(RedisResultsPrefix, id)]
          /\ \A id \in Ids :
                LET key == Key(RedisJobMetaPrefix, id)
                IN  kv'[key] # kv[key] =>
                      /\ \E r \in Reqs :
                            /\ Submission(r) /\ h[r].jobID = id
                            /\ h[r].pc = "setmeta" /\ h'[r].pc = "lpush"
                      /\ kv'[key] # None
                      /\ kv'[key][1].job_id = id
                      /\ kv'[key][1].status = "queued"
                      /\ kv'[key][1].updated_at = kv'[key][1].created_at
                      /\ "error" \notin DOMAIN kv'[key][1]
          /\ \/ queue' = queue
             \/ /\ Len(queue') = Len(queue) + 1
                /\ SubSeq(queue', 1, Len(queue)) = queue ]_vars

\* two submissions have been answered; each wrote its record once, and the
\* worker has moved the first job on since
C26_Witness ==
    /\ \A r \in Reqs : Submission(r) /\ Answered(r) /\ h[r].errMeta = "ok"
    /\ \E r, q \in Reqs :
          /\ MetaOf(h[r].jobID) # None /\ MetaOf(h[r].jobID)[1].status = "done"
          /\ MetaOf(h[q].jobID) # None /\ MetaOf(h[q].jobID)[1].status = "queued"

\* C28: every answer of GET /results/:job_id whose status is done carries a
\* result field.
C28_DoneCarriesResult ==
    \A r \in Reqs :
        (Query(r) /\ Answered(r) /\ h[r].resp[1].code = StatusOK) =>
            (h[r].resp[1].body.status = "done"
                => "result" \in DOMAIN h[r].resp[1].body)

\* a client can have learned the id: a submission has been answered 202
\* with it, or GET /results would list it
Learned(jobID) ==
    \/ \E s \in Reqs :
          /\ Submission(s) /\ Answered(s) /\ h[s].jobID = jobID
          /\ h[s].resp[1].code = StatusAccepted
    \/ PosIn(recent, jobID) > 0

\* no store operation of any handler has failed
NoStoreError(hs) ==
    \A r \in Reqs :
        /\ hs[r].errPush # "fail" /\ hs[r].errMeta # "fail"
        /\ hs[r].errLPush # "fail" /\ hs[r].errTrim # "fail"
        /\ hs[r].res.err # "error" /\ hs[r].meta.err # "error"

\* C29: while every store operation succeeds and no record has expired, a
\* query GET /jobs/:job_id or GET /results/:job_id about an id that a
\* client can have learned, from a submission response or from the recency
\* list, is not answered 404; the metadata record of a learned id exists.
C29_LearnedIdIsFound ==
    [][ NoStoreError(h') =>
          /\ \A id \in Ids : Learned(id)' => MetaOf(id)' # None
          /\ \A r \in Reqs :
                ( /\ h[r].pc # "done" /\ h'[r].pc = "done"
                  /\ h'[r].kind \in {"results", "jobs"}
                  /\ Learned(h'[r].jobID) )
                => h'[r].resp[1].code # StatusNotFound ]_vars

\* GET /jobs/:job_id has found the record of a job whose id is in the
\* recency index while its submission has not been answered yet
C29_Witness ==
    \E r, s \in Reqs :
        /\ JobsQuery(r) /\ Answered(r) /\ h[r].resp[1].code = StatusOK
        /\ Submission(s) /\ h[s].jobID = h[r].jobID /\ h[s].pc = "ltrim"
        /\ PosIn(recent, h[r].jobID) > 0
        /\ NoStoreError(h)

\* the payload of the job has been pushed onto the queue: it is in the
\* queue, or the worker has taken it
Enqueued(jobID) ==
    \/ Queued(jobID)
    \/ \E i \in 1..Len(popped) : popped[i] = jobID

\* C30: every job id in the recency index and every job id with a metadata
\* record belongs to a payload that was pushed onto the queue before; a
\* submission whose id is in the recency index has had its enqueue succeed
\* and its metadata write attempted.
C30_EnqueueComesFirst ==
    /\ \A id \in Ids :
          (PosIn(recent, id) > 0 \/ MetaOf(id) # None) => Enqueued(id)
    /\ \A r \in Reqs :
          (Submission(r) /\ PosIn(recent, h[r].jobID) > 0) =>
              (h[r].errPush = "ok" /\ h[r].errMeta \in {"ok", "fail"})

\* the id of a job is in the recency index and its record is stored, while
\* the worker has taken its payload from the queue
C30_Witness ==
    \E r \in Reqs :
        /\ Submission(r) /\ PosIn(recent, h[r].jobID) > 0
        /\ MetaOf(h[r].jobID) # None
        /\ ~Queued(h[r].jobID)
        /\ popped = << h[r].jobID >>

\* the client's poll sequence is over
PollEnded == p.pc = "ended"

\* an answer of GET /results/:job_id whose status is terminal
TerminalAnswer(resp) ==
    /\ resp.code = StatusOK
    /\ resp.body.status \in { StatusDone, StatusError }

\* C22: a poll sequence goes on until an answer has status done or error or
\* the timeout has elapsed: the step in which the client takes an answer
\* that is not terminal (a 404, a 500, a queued, running or unknown status)
\* does not end the sequence.
C22_OnlyTerminalAnswerEndsPolling ==
    [][ (p.pc = "fetch" /\ p'.pc = "ended") =>
            TerminalAnswer(h[PollSlot].resp[1]) ]_vars

\* C23: every poll sequence that is over has ended in one of three ways: it
\* returned an answer with status done, it raised the job's failure on an
\* answer with status error, or it raised the timeout with the elapsed time
\* at maxWait; and it has issued at most maxWait / PollInterval + 1 queries.
C23_PollEndsInOneOfThreeWays ==
    PollEnded =>
        /\ \/ /\ p.outcome = "returned"
              /\ p.last # None /\ p.last[1].code = StatusOK
              /\ p.last[1].body.status = StatusDone
           \/ /\ p.outcome = "job failed"
              /\ p.last # None /\ p.last[1].code = StatusOK
              /\ p.last[1].body.status = StatusError
           \/ /\ p.outcome = "timeout"
              /\ p.elapsed >= maxWait
        /\ p.polls <= (maxWait \div PollInterval) + 1

\* the worker has taken the job and has finished it without a result: it
\* wrote status error into the job's metadata record
WorkerFailed(jobID) ==
    /\ \E i \in 1..Len(popped) : popped[i] = jobID
    /\ w.job = None \/ w.job[1].job_id # jobID
    /\ kv[Key(RedisResultsPrefix, jobID)] = None

\* C27: once the worker has finished the job with an error, a query of the
\* client (all of them are issued after the answer to the submission) that
\* reads the metadata record reports status error.
C27_FailedJobReportsError ==
    [][ ( /\ h[PollSlot].kind = "results" /\ h[PollSlot].pc = "getmeta"
          /\ h'[PollSlot].pc = "done"
          /\ WorkerFailed(h[PollSlot].jobID)
          /\ h'[PollSlot].meta.err = "nil" )
        => ( /\ h'[PollSlot].resp[1].code = StatusOK
             /\ h'[PollSlot].resp[1].body.status = StatusError ) ]_vars

\* how many payloads of the queue carry the job id
TimesQueued(q, jobID) == Cardinality({ i \in 1..Len(q) : q[i].job_id = jobID })

\* C31: while nothing is taken off the queue, every step either leaves the
\* queue as it is or is the RPush of one submission and appends that
\* submission's payload at the tail, behind every payload enqueued before;
\* afterwards a submission answered 202 has exactly one payload in the
\* queue, a submission answered 400 has appended none, and the queue holds
\* one payload per successful RPush.
C31_QueueGrowsAtTailOnly ==
    [][ /\ \/ queue' = queue
           \/ \E r \in Reqs :
                 /\ Submission(r) /\ h[r].pc = "rpush" /\ h'[r].errPush = "ok"
                 /\ queue' = Append(queue,
                        MarshalJobPayload(h[r].jobID, h[r].now, h[r].params))
        /\ \A r \in Reqs :
              (h'[r].kind = "simulate" /\ h'[r].pc = "done") =>
                 /\ h'[r].resp[1].code = StatusAccepted =>
                       TimesQueued(queue', h'[r].jobID) = 1
                 /\ h'[r].resp[1].code = StatusBadRequest =>
                       /\ h'[r].errPush = "none"
                       /\ h[r].kind = "idle" => queue' = queue
        /\ Len(queue') = Cardinality({ r \in Reqs : h'[r].errPush = "ok" }) ]_vars

\* two submissions were accepted; the one that arrived second enqueued its
\* payload first and is ahead in the queue
C31_Witness ==
    /\ \A r \in Reqs : r <= 2 =>
          /\ Submission(r) /\ Answered(r)
          /\ h[r].resp[1].code = StatusAccepted
    /\ Len(queue) >= 2
    /\ queue[1].job_id = h[2].jobID /\ queue[2].job_id = h[1].jobID

\* no submission is between its head insert and its trim
NoInsertUntrimmed == \A r \in Reqs : ~(Submission(r) /\ h[r].pc = "ltrim")

\* no LPush and no LTrim of a submission has failed
RecencyOpsSucceeded ==
    \A r \in Reqs : h[r].errLPush # "fail" /\ h[r].errTrim # "fail"

\* the ids head-inserted by the submissions served since the start
NewlyInserted == { h[r].jobID : r \in { q \in Reqs : h[q].errLPush = "ok" } }

\* C32: the recency index changes only by a head insert of a new id or by a
\* trim that keeps the first RecentJobsMaxRetain ids and cuts the rest off
\* the tail.  After every step, if no submission is between its head insert
\* and its trim and no recency operation has failed, the index holds
\* min(100, k) ids without duplicates, k being the number of head inserts
\* so far: the ids inserted since the start, in front of the most recent
\* of the earlier ones in their order.
C32_IndexIsTheLatestInserts ==
    [][ /\ \/ recent' = recent
           \/ \E r \in Reqs :
                 /\ Submission(r) /\ h[r].pc = "lpush" /\ h'[r].errLPush = "ok"
                 /\ PosIn(recent, h[r].jobID) = 0
                 /\ recent' = << h[r].jobID >> \o recent
           \/ \E r \in Reqs :
                 /\ Submission(r) /\ h[r].pc = "ltrim" /\ h'[r].errTrim = "ok"
                 /\ recent' = SubSeq(recent, 1, Min(RecentJobsMaxRetain, Len(recent)))
        /\ (NoInsertUntrimmed' /\ RecencyOpsSucceeded') =>
              LET n == Cardinality(NewlyInserted')
                  k == EarlierSubmissions' + n
              IN  /\ Len(recent') = Min(RecentJobsMaxRetain, k)
                  /\ \A i, j \in 1..Len(recent') :
                        i # j => recent'[i] # recent'[j]
                  /\ { recent'[i] : i \in 1..n } = NewlyInserted'
                  /\ \A i \in (n + 1)..Len(recent') : recent'[i] = n - i ]_vars

\* against a full index two submissions have inserted and trimmed: their
\* ids are at the head and the two oldest ids are gone
C32_Witness ==
    /\ NoInsertUntrimmed /\ RecencyOpsSucceeded
    /\ Cardinality(NewlyInserted) = 2
    /\ \A r \in Reqs : h[r].errLPush = "ok" => h[r].errTrim = "ok"
    /\ Len(recent) = RecentJobsMaxRetain
    /\ recent[1] > 0 /\ recent[2] > 0
    /\ recent[RecentJobsMaxRetain] = 2 - RecentJobsMaxRetain

\* the four values of a job's status
Statuses == { StatusQueued, StatusRunning, StatusDone, StatusError }

\* C33: every 200 answer of GET /results/:job_id reports a status that is
\* one of queued, running, done and error, whatever is stored under
\* job_meta:<id>.
C33_StatusIsOneOfFour ==
    \A r \in Reqs :
        (Query(r) /\ Answered(r) /\ h[r].resp[1].code = StatusOK) =>
            h[r].resp[1].body.status \in Statuses

\* the stored value is a job record: a JSON object with the members the
\* submission handler writes and one of the four statuses
IsJobRecord(doc) ==
    /\ JsonValid(doc)
    /\ {"job_id", "status", "created_at", "updated_at", "params", "result_key"}
          \subseteq DOMAIN doc
    /\ doc.status \in Statuses

\* C34: GET /jobs/:job_id whose read returned a record that the submission
\* handler or the worker wrote answers 200 with exactly that record: the
\* same members with the same values, none added and none dropped; when the
\* stored text cannot be parsed it answers 500.
C34_JobsReturnsRecordVerbatim ==
    \A r \in Reqs :
        (JobsQuery(r) /\ Answered(r) /\ h[r].meta.err = "nil") =>
            LET doc == h[r].meta.val[1]
            IN  /\ IsJobRecord(doc) =>
                      /\ h[r].resp[1].code = StatusOK
                      /\ DOMAIN h[r].resp[1].body = DOMAIN doc
                      /\ \A k \in DOMAIN doc : h[r].resp[1].body[k] = doc[k]
                /\ ~JsonValid(doc) =>
                      h[r].resp = Respond(StatusInternalServerError,
                                          [error |-> "failed to parse job meta"])

\* one query has returned the record of a failed job as the worker wrote it
\* (status error, a later updated_at, an error text), and another one has
\* met a stored text that is not JSON
C34_Witness ==
    \E r, q \in Reqs :
        /\ JobsQuery(r) /\ Answered(r) /\ h[r].meta.err = "nil"
        /\ h[r].meta.val[1] = UpdatedMeta(StatusError, "simulation failed")
        /\ h[r].resp[1].body.error = "simulation failed"
        /\ JobsQuery(q) /\ Answered(q) /\ h[q].meta.err = "nil"
        /\ ~JsonValid(h[q].meta.val[1])

\* C35: a query whose read of job_result:<id> returned a value is never
\* answered with an error; when the value is not a JSON document the answer
\* is 200 with status done and the raw stored text as result.
C35_RawResultIsReturned ==
    \A r \in Reqs :
        (Query(r) /\ h[r].res.err = "nil") =>
            /\ Answered(r)
            /\ h[r].resp[1].code = StatusOK
            /\ h[r].res.val[1] \notin JsonTexts =>
                  h[r].resp = Respond(StatusOK,
                                 [job_id |-> h[r].jobID, status |-> StatusDone,
                                  result |-> Str(h[r].res.val[1])])

\* a query has returned a plain-text result while the job's metadata is a
\* text that cannot be parsed
C35_Witness ==
    \E r \in Reqs :
        /\ Query(r) /\ Answered(r) /\ h[r].res.err = "nil"
        /\ h[r].res.val[1] = "plain text"
        /\ h[r].resp[1].body.result = Str("plain text")
        /\ MetaOf(h[r].jobID) = Some(NotJSON("not a record"))

\* C36: the Set of a submission stores the result key of its job id as the
\* record's result_key; no step of a handler changes the result_key of a
\* record; GET /results/:job_id reads the key that the record of that id
\* names; and the keys of distinct ids are distinct, a metadata key never
\* being a result key.
C36_ResultKeyIsFixedAndDistinct ==
    [][ /\ \A r \in Reqs :
              ( /\ Submission(r) /\ h[r].pc = "setmeta"
                /\ h'[r].errMeta = "ok" ) =>
                 /\ MetaOf(h[r].jobID)' # None
                 /\ MetaOf(h[r].jobID)'[1].result_key =
                       Key(RedisResultsPrefix, h[r].jobID)
        /\ \A id \in Ids :
              (h' # h /\ MetaOf(id) # None /\ MetaOf(id)' # None) =>
                 MetaOf(id)'[1].result_key = MetaOf(id)[1].result_key
        /\ \A r \in Reqs :
              ( /\ h[r].kind = "idle" /\ h'[r].kind = "results"
                /\ h'[r].res.err # "error"
                /\ MetaOf(h'[r].jobID) # None ) =>
                 h'[r].res.val = kv[MetaOf(h'[r].jobID)[1].result_key]
        /\ \A a, b \in Ids :
              /\ Key(RedisJobMetaPrefix, a) # Key(RedisResultsPrefix, b)
              /\ a # b => /\ Key(RedisJobMetaPrefix, a) # Key(RedisJobMetaPrefix, b)
                          /\ Key(RedisResultsPrefix, a) # Key(RedisResultsPrefix, b)
      ]_vars

\* the client's query has read the result under the key that the job's
\* metadata record names, after the worker updated that record
C36_Witness ==
    /\ Query(PollSlot) /\ Answered(PollSlot)
    /\ h[PollSlot].res.err = "nil"
    /\ h[SubmitSlot].errMeta = "ok"
    /\ MetaOf(h[PollSlot].jobID) # None
    /\ MetaOf(h[PollSlot].jobID)[1].status = StatusDone
    /\ MetaOf(h[PollSlot].jobID)[1].result_key = "job_result:1"
    /\ kv[MetaOf(h[PollSlot].jobID)[1].result_key] = h[PollSlot].res.val

====
